---- MODULE Spec2Model ----
(***************************************************************************)
(* N3FJP scoreboard server (src/server.py): the response parser, the       *)
(* deduplicating aggregator (Aggregates.add_record) and the poll scheduler *)
(* (ScoreboardApiPoller) with its lock, its readers and its shutdown.      *)
(*                                                                         *)
(* Python strings are sequences of one-character strings, so that strip,   *)
(* upper, int() and the date handling are computed, not assumed.  Tag      *)
(* names are TLA+ strings.  A dict is a function on its set of keys.       *)
(***************************************************************************)
EXTENDS Integers, Sequences, FiniteSets, TLC

(***************************************************************************)
(* Python values                                                           *)
(***************************************************************************)

\* None, as a value no Python string equals (strings hold one-character items).
None == <<"None">>

\* bool(v) of a string-or-None value.
Truthy(v) == v # None /\ v # <<>>

\* a or b
Or(a, b) == IF Truthy(a) THEN a ELSE b

\* r.get(k) of a dict r
Get(r, k) == IF k \in DOMAIN r THEN r[k] ELSE None

EmptyDict == [k \in {} |-> 0]

\* d[k] = d.get(k, 0) + n
Inc(d, k, n) == IF k \in DOMAIN d THEN [d EXCEPT ![k] = @ + n] ELSE d @@ (k :> n)

\* d[k] = v
Put(d, k, v) == IF k \in DOMAIN d THEN [d EXCEPT ![k] = v] ELSE d @@ (k :> v)

Whitespace == {" ", "\t", "\n", "\r"}

Digits == {"0", "1", "2", "3", "4", "5", "6", "7", "8", "9"}

DigitVal(c) ==
  CASE c = "0" -> 0 [] c = "1" -> 1 [] c = "2" -> 2 [] c = "3" -> 3 [] c = "4" -> 4
    [] c = "5" -> 5 [] c = "6" -> 6 [] c = "7" -> 7 [] c = "8" -> 8 [] c = "9" -> 9

\* str.upper() on one character (the letters the model's inputs use in lower case)
UpperChar(c) ==
  CASE c = "p" -> "P" [] c = "h" -> "H" [] c = "c" -> "C" [] c = "w" -> "W"
    [] c = "d" -> "D" [] c = "i" -> "I" [] c = "g" -> "G" [] c = "x" -> "X"
    [] OTHER -> c

Upper(s) == [i \in DOMAIN s |-> UpperChar(s[i])]

RECURSIVE LStrip(_)
LStrip(s) == IF s # <<>> /\ Head(s) \in Whitespace THEN LStrip(Tail(s)) ELSE s

RECURSIVE RStrip(_)
RStrip(s) ==
  IF s # <<>> /\ s[Len(s)] \in Whitespace THEN RStrip(SubSeq(s, 1, Len(s) - 1)) ELSE s

\* str.strip()
Strip(s) == RStrip(LStrip(s))

\* str.isdigit()
IsDigitStr(s) == s # <<>> /\ \A i \in DOMAIN s : s[i] \in Digits

RECURSIVE DigitsValue(_)
DigitsValue(s) ==
  IF s = <<>> THEN 0 ELSE 10 * DigitsValue(SubSeq(s, 1, Len(s) - 1)) + DigitVal(s[Len(s)])

\* int(s): {n} when s is an optionally signed run of digits (surrounding
\* whitespace allowed), {} when int() raises ValueError.
ParseInt(s) ==
  LET t == Strip(s)
      signed == t # <<>> /\ Head(t) \in {"+", "-"}
      body == IF signed THEN Tail(t) ELSE t
  IN IF ~IsDigitStr(body) THEN {}
     ELSE IF signed /\ Head(t) = "-" THEN {0 - DigitsValue(body)} ELSE {DigitsValue(body)}

(***************************************************************************)
(* Wire text.  A response is a sequence of tokens: the outer marker        *)
(* <LISTRESPONSE> ("open"; "open_ws" when written with inner whitespace),  *)
(* its closing delimiter ("close", "close_ws"), a complete <TAG>val</TAG>  *)
(* pair ("pair"), or a fragment that no pattern matches ("frag": a pair    *)
(* cut short by the end of the read).                                      *)
(***************************************************************************)

Tok(kind, tag, val) == [t |-> kind, tag |-> tag, val |-> val]
OpenTok == Tok("open", "", <<>>)
OpenWsTok == Tok("open_ws", "", <<>>)
CloseTok == Tok("close", "", <<>>)
CloseWsTok == Tok("close_ws", "", <<>>)
FragTok == Tok("frag", "", <<>>)
Pair(tag, val) == Tok("pair", tag, val)

\* tag.upper() of a tag name
UpperTag(tag) ==
  CASE tag = "call" -> "CALL" [] tag = "mode" -> "MODE" [] tag = "cmd" -> "CMD"
    [] tag = "fldprimarykey" -> "FLDPRIMARYKEY" [] OTHER -> tag

RECURSIVE ParseTagsFrom(_, _)
ParseTagsFrom(block, rec) ==
  IF block = <<>> THEN rec
  ELSE LET tk == Head(block)
           tag_u == UpperTag(tk.tag)
       IN IF tk.t # "pair" \/ tag_u = "" \/ tag_u \in {"CMD", "LISTRESPONSE"}
          THEN ParseTagsFrom(Tail(block), rec)
          ELSE ParseTagsFrom(Tail(block), Put(rec, tag_u, Strip(tk.val)))

\* _parse_tags(block): the dict of the block's tag pairs, a later pair of the
\* same tag overwriting an earlier one.
ParseTags(block) == ParseTagsFrom(block, EmptyDict)

\* re.search(r"</\s*LISTRESPONSE\s*>", text)
HasCloser(text) == \E i \in DOMAIN text : text[i].t \in {"close", "close_ws"}

\* index of the first token of one of the kinds at or after position i, else 0
RECURSIVE FindFrom(_, _, _)
FindFrom(text, i, kinds) ==
  IF i > Len(text) THEN 0
  ELSE IF text[i].t \in kinds THEN i ELSE FindFrom(text, i + 1, kinds)

\* re.findall(r"<LISTRESPONSE>(.*?)</LISTRESPONSE>", text): left to right, each
\* exact marker with the nearest exact closer after it.
RECURSIVE ClosedBlocks(_, _)
ClosedBlocks(text, i) ==
  LET o == FindFrom(text, i, {"open"})
      c == IF o = 0 THEN 0 ELSE FindFrom(text, o + 1, {"close"})
  IN IF o = 0 \/ c = 0 THEN <<>>
     ELSE <<SubSeq(text, o + 1, c - 1)>> \o ClosedBlocks(text, c + 1)

\* re.split(r"<\s*LISTRESPONSE\s*>", text)[1:]
RECURSIVE MarkerChunks(_, _)
MarkerChunks(text, i) ==
  LET o == FindFrom(text, i, {"open", "open_ws"})
      n == IF o = 0 THEN 0 ELSE FindFrom(text, o + 1, {"open", "open_ws"})
  IN IF o = 0 THEN <<>>
     ELSE IF n = 0 THEN <<SubSeq(text, o + 1, Len(text))>>
     ELSE <<SubSeq(text, o + 1, n - 1)>> \o MarkerChunks(text, n)

\* a faulty NonEmptyRecords that keeps the record of a block with no tag pair
RECURSIVE AllRecords(_)
AllRecords(blocks) ==
  IF blocks = <<>> THEN <<>> ELSE <<ParseTags(Head(blocks))>> \o AllRecords(Tail(blocks))

RECURSIVE NonEmptyRecords(_)
NonEmptyRecords(blocks) ==
  IF blocks = <<>> THEN <<>>
  ELSE LET rec == ParseTags(Head(blocks))
       IN (IF DOMAIN rec # {} THEN <<rec>> ELSE <<>>) \o NonEmptyRecords(Tail(blocks))

\* a faulty ParseCmdRecords with no return after the closed blocks: it goes on
\* to split the same text on its markers
ParseCmdRecordsBothFramings(text) ==
  IF text = <<>> THEN <<>>
  ELSE (IF HasCloser(text) THEN NonEmptyRecords(ClosedBlocks(text, 1)) ELSE <<>>)
         \o NonEmptyRecords(MarkerChunks(text, 1))

\* parse_cmd_records(text)
ParseCmdRecords(text) ==
  IF text = <<>> THEN <<>>
  ELSE IF HasCloser(text) THEN NonEmptyRecords(ClosedBlocks(text, 1))
  ELSE NonEmptyRecords(MarkerChunks(text, 1))

\* a faulty PointsFromModetest that scores a digital contact as a phone contact
PointsFromModetestDigAsPhone(modetest) ==
  LET mt == Upper(Or(modetest, <<>>))
  IN IF mt \in {<<"P", "H">>, <<"D", "I", "G">>} THEN 1
     ELSE IF mt = <<"C", "W">> THEN 2
     ELSE 0

\* points_from_modetest(modetest)
PointsFromModetest(modetest) ==
  LET mt == Upper(Or(modetest, <<>>))
  IN IF mt = <<"P", "H">> THEN 1
     ELSE IF mt \in {<<"C", "W">>, <<"D", "I", "G">>} THEN 2
     ELSE 0

(***************************************************************************)
(* Aggregates: the aggregate state and add_record                          *)
(***************************************************************************)

\* Aggregates(): every field at its dataclass default
EmptyAgg ==
  [seen_keys |-> {},
   total_contacts |-> 0,
   total_points |-> 0,
   contacts_by_operator |-> EmptyDict,
   points_by_operator |-> EmptyDict,
   contacts_by_mode |-> EmptyDict,
   contacts_by_band |-> EmptyDict,
   contacts_by_continent |-> EmptyDict,
   contacts_by_state |-> EmptyDict,
   contacts_by_country |-> EmptyDict,
   sections_worked |-> {},
   stations |-> EmptyDict,
   qsos_by_hour |-> EmptyDict,
   qsos_by_band_hour |-> EmptyDict,
   all_qso_times |-> <<>>]

\* a faulty PrimaryKey that gives a record with no key the key 0
PrimaryKeyZeroWhenAbsent(r) ==
  LET pk_raw == Or(Get(r, "FLDPRIMARYKEY"), Get(r, "PRIMARYKEY"))
  IN IF Truthy(pk_raw) THEN ParseInt(pk_raw) ELSE {0}

\* pk of add_record: {int(pk_raw)}, or {} (None) when neither key field is
\* truthy or int() raises ValueError.
PrimaryKey(r) ==
  LET pk_raw == Or(Get(r, "FLDPRIMARYKEY"), Get(r, "PRIMARYKEY"))
  IN IF Truthy(pk_raw) THEN ParseInt(pk_raw) ELSE {}

\* the early return of add_record: pk is not None and pk in self.seen_keys
IsDuplicate(a, pk) == pk # {} /\ pk \subseteq a.seen_keys

OperatorOf(r) ==
  LET op == Strip(Or(Or(Get(r, "FLDOPERATOR"), Get(r, "OPERATOR")), <<>>))
  IN IF op # <<>> THEN op ELSE <<"U", "N", "K", "N", "O", "W", "N">>

ModeOf(r) ==
  LET mode == Strip(Or(Get(r, "MODE"), <<>>))
  IN IF mode # <<>> THEN mode ELSE <<"U", "N", "K">>


BandOf(r) == Strip(Or(Get(r, "BAND"), <<>>))

QsoDateOf(r) ==
  Strip(Or(Or(Or(Get(r, "DATE"), Get(r, "QSODATE")), Get(r, "FLDQSODATE")), <<>>))

QsoTimeOf(r) == Strip(Or(Or(Get(r, "TIMEON"), Get(r, "FLDTIMEON")), <<>>))

\* a faulty IncIf that counts the empty value as a key of its own
IncAlways(d, k) == Inc(d, k, 1)

\* d with key k counted when k is non-empty (if band: ..., if cont: ...)
IncIf(d, k) == IF k # <<>> THEN Inc(d, k, 1) ELSE d

\* a faulty CountMode that skips a record with no mode, as it would a band
CountModeIfPresent(d, r) == IncIf(d, Strip(Or(Get(r, "MODE"), <<>>)))

\* contacts_by_mode[mode] += 1, the mode defaulting to "UNK"
CountMode(d, r) == Inc(d, ModeOf(r), 1)

\* s.split(sep): the pieces of s between occurrences of the character sep
RECURSIVE Split(_, _)
Split(s, sep) ==
  LET i == CHOOSE j \in 1..(Len(s) + 1) :
             /\ (j = Len(s) + 1 \/ s[j] = sep)
             /\ \A k \in 1..(j - 1) : s[k] # sep
  IN IF i = Len(s) + 1 THEN <<s>>
     ELSE <<SubSeq(s, 1, i - 1)>> \o Split(SubSeq(s, i + 1, Len(s)), sep)

\* s.split()[0] when s.split() is non-empty: the first run of non-whitespace
FirstWord(s) ==
  LET t == LStrip(s)
      n == CHOOSE j \in 0..Len(t) :
             /\ (j = Len(t) \/ t[j + 1] \in Whitespace)
             /\ \A k \in 1..j : t[k] \notin Whitespace
  IN SubSeq(t, 1, n)

\* s.zfill(2)
ZFill2(s) ==
  IF Len(s) >= 2 THEN s
  ELSE IF s = <<>> THEN <<"0", "0">>
  ELSE IF s[1] \in {"+", "-"} THEN <<s[1], "0">>
  ELSE <<"0", s[1]>>

\* s.replace(":", "")
DropColons(s) == SelectSeq(s, LAMBDA c : c # ":")

\* The hour-bucket key add_record derives from the date and time fields, or
\* None when a field is missing, the date has neither encoding, the time is
\* too short, or parts[1].split()[0] raises IndexError (caught, skipped).
HourKey(qso_date, qso_time) ==
  IF qso_date = <<>> \/ qso_time = <<>> THEN None
  ELSE
    LET slash == \E i \in DOMAIN qso_date : qso_date[i] = "/"
        parts == Split(qso_date, "/")
        raises == slash /\ LStrip(parts[2]) = <<>>
        month == IF slash THEN ZFill2(parts[1])
                 ELSE IF Len(qso_date) = 8 /\ IsDigitStr(qso_date)
                      THEN SubSeq(qso_date, 5, 6) ELSE None
        day == IF slash THEN ZFill2(FirstWord(parts[2]))
               ELSE IF Len(qso_date) = 8 /\ IsDigitStr(qso_date)
                    THEN SubSeq(qso_date, 7, 8) ELSE None
        time_clean == Strip(DropColons(qso_time))
        hour == IF Len(time_clean) >= 2 THEN SubSeq(time_clean, 1, 2) ELSE None
    IN IF raises THEN None
       ELSE IF Truthy(month) /\ Truthy(day) /\ Truthy(hour)
            THEN <<"2", "0", "2", "6", "-">> \o month \o <<"-">> \o day \o <<"-">> \o hour
            ELSE None

\* a faulty TrackTime that counts a contact with a band in the band's hours
\* only, not in the overall hours
TrackTimeBandOrOverall(a, r) ==
  LET band == BandOf(r)
      hour_key == HourKey(QsoDateOf(r), QsoTimeOf(r))
      by_band == IF band \in DOMAIN a.qsos_by_band_hour
                 THEN a.qsos_by_band_hour[band] ELSE EmptyDict
  IN IF hour_key = None THEN a
     ELSE [a EXCEPT
             !.qsos_by_hour = IF band # <<>> THEN @ ELSE Inc(@, hour_key, 1),
             !.qsos_by_band_hour =
                IF band # <<>> THEN Put(@, band, Inc(by_band, hour_key, 1)) ELSE @,
             !.all_qso_times = Append(@, QsoDateOf(r) \o <<" ">> \o QsoTimeOf(r))]

\* a faulty TrackTime that records the composed timestamp before it knows
\* whether the hour can be read
TrackTimeListFirst(a, r) ==
  LET band == BandOf(r)
      hour_key == HourKey(QsoDateOf(r), QsoTimeOf(r))
      by_band == IF band \in DOMAIN a.qsos_by_band_hour
                 THEN a.qsos_by_band_hour[band] ELSE EmptyDict
      listed == [a EXCEPT !.all_qso_times = Append(@, QsoDateOf(r) \o <<" ">> \o QsoTimeOf(r))]
  IN IF hour_key = None THEN listed
     ELSE [listed EXCEPT
             !.qsos_by_hour = Inc(@, hour_key, 1),
             !.qsos_by_band_hour =
                IF band # <<>> THEN Put(@, band, Inc(by_band, hour_key, 1)) ELSE @]

\* the hourly histograms and the time-instant list, updated when the
\* timestamp parses
TrackTime(a, r) ==
  LET band == BandOf(r)
      hour_key == HourKey(QsoDateOf(r), QsoTimeOf(r))
      by_band == IF band \in DOMAIN a.qsos_by_band_hour
                 THEN a.qsos_by_band_hour[band] ELSE EmptyDict
  IN IF hour_key = None THEN a
     ELSE [a EXCEPT
             !.qsos_by_hour = Inc(@, hour_key, 1),
             !.qsos_by_band_hour =
                IF band # <<>> THEN Put(@, band, Inc(by_band, hour_key, 1)) ELSE @,
             !.all_qso_times = Append(@, QsoDateOf(r) \o <<" ">> \o QsoTimeOf(r))]

StationOf(r) ==
  LET station == Strip(Or(Or(Get(r, "STATION"), Get(r, "FLDSTATION")), <<>>))
  IN IF station # <<>> THEN station ELSE <<"O", "p", ":", " ">> \o OperatorOf(r)

FullTimeOf(r) == Strip(QsoDateOf(r) \o <<" ">> \o QsoTimeOf(r))

\* qso_entry
QsoEntry(r) ==
  [call |-> Strip(Or(Get(r, "CALL"), <<>>)),
   operator |-> OperatorOf(r),
   band |-> BandOf(r),
   mode |-> ModeOf(r),
   time |-> FullTimeOf(r)]

\* a faulty RecentAfter that appends the new contact at the end
RecentAfterAppend(recent, entry) ==
  LET ins == Append(recent, entry)
  IN SubSeq(ins, 1, IF Len(ins) < 5 THEN Len(ins) ELSE 5)

\* recent.insert(0, qso_entry); recent = recent[:5]
RecentAfter(recent, entry) ==
  LET ins == <<entry>> \o recent
  IN SubSeq(ins, 1, IF Len(ins) < 5 THEN Len(ins) ELSE 5)

\* a faulty TrackStation that sets a station's operator, band, mode and
\* lastUpdate only when it creates the station
TrackStationFirstWriter(a, r) ==
  LET station == StationOf(r)
      known == station \in DOMAIN a.stations
      recent == IF known THEN a.stations[station].recent ELSE <<>>
  IN [a EXCEPT !.stations =
        Put(@, station,
            [name |-> station,
             operator |-> IF known THEN a.stations[station].operator ELSE OperatorOf(r),
             band |-> IF known THEN a.stations[station].band ELSE BandOf(r),
             mode |-> IF known THEN a.stations[station].mode ELSE ModeOf(r),
             recent |-> RecentAfter(recent, QsoEntry(r)),
             lastUpdate |-> IF known THEN a.stations[station].lastUpdate ELSE FullTimeOf(r)])]

\* the station registry upsert
TrackStation(a, r) ==
  LET station == StationOf(r)
      recent == IF station \in DOMAIN a.stations THEN a.stations[station].recent ELSE <<>>
  IN [a EXCEPT !.stations =
        Put(@, station,
            [name |-> station,
             operator |-> OperatorOf(r),
             band |-> BandOf(r),
             mode |-> ModeOf(r),
             recent |-> RecentAfter(recent, QsoEntry(r)),
             lastUpdate |-> FullTimeOf(r)])]

\* totals, per-operator, per-mode and the optional dimensions and sections
CountRecord(a, r) ==
  LET pk == PrimaryKey(r)
      op == OperatorOf(r)
      pts == PointsFromModetest(Or(Get(r, "MODETEST"), <<>>))
      section == Strip(Or(Or(Get(r, "ARRLSECTION"), Get(r, "SECTION")), <<>>))
  IN [a EXCEPT
        !.seen_keys = @ \cup pk,
        !.total_contacts = @ + 1,
        !.contacts_by_operator = Inc(@, op, 1),
        !.total_points = @ + pts,
        !.points_by_operator = Inc(@, op, pts),
        !.contacts_by_mode = CountMode(@, r),
        !.contacts_by_band = IncIf(@, BandOf(r)),
        !.contacts_by_continent = IncIf(@, Strip(Or(Get(r, "CONTINENT"), <<>>))),
        !.contacts_by_state = IncIf(@, Strip(Or(Get(r, "STATE"), <<>>))),
        !.contacts_by_country = IncIf(@, Strip(Or(Get(r, "COUNTRYWORKED"), <<>>))),
        !.sections_worked = IF section # <<>> THEN @ \cup {section} ELSE @]

\* a faulty add_record that counts the record before the duplicate check
add_record_count_first(a, r) ==
  IF IsDuplicate(a, PrimaryKey(r)) THEN [a EXCEPT !.total_contacts = @ + 1]
  ELSE TrackStation(TrackTime(CountRecord(a, r), r), r)

\* Aggregates.add_record(r): the aggregate state after merging r into a
add_record(a, r) ==
  IF IsDuplicate(a, PrimaryKey(r)) THEN a
  ELSE TrackStation(TrackTime(CountRecord(a, r), r), r)

\* add_record called with each record of log in turn (the test of the count
\* has TLC compute each state before the next call, not all of them nested)
RECURSIVE FoldAdd(_, _)
FoldAdd(a, log) ==
  IF log = <<>> THEN a
  ELSE LET merged == add_record(a, Head(log))
       IN IF merged.total_contacts >= 0 THEN FoldAdd(merged, Tail(log)) ELSE merged

\* log without each record whose integer key an earlier record of log carries
RECURSIVE FirstPerKeyFrom(_, _)
FirstPerKeyFrom(log, keys) ==
  IF log = <<>> THEN <<>>
  ELSE LET k == PrimaryKey(Head(log))
       IN IF k # {} /\ k \subseteq keys THEN FirstPerKeyFrom(Tail(log), keys)
          ELSE <<Head(log)>> \o FirstPerKeyFrom(Tail(log), keys \cup k)

FirstPerKey(log) == FirstPerKeyFrom(log, {})

(***************************************************************************)
(* Aggregates.snapshot.  A Python dict keeps its keys in insertion order,  *)
(* which sorted() and list(values()) expose; the order is that in which    *)
(* the merged records first brought each key, so it is read off the        *)
(* sequence of records passed to add_record.                               *)
(***************************************************************************)

\* the distinct non-empty items of seq, in the order of their first occurrence
RECURSIVE FirstSeen(_, _)
FirstSeen(seq, seen) ==
  IF seq = <<>> THEN <<>>
  ELSE IF Head(seq) = <<>> \/ Head(seq) \in seen THEN FirstSeen(Tail(seq), seen)
  ELSE <<Head(seq)>> \o FirstSeen(Tail(seq), seen \cup {Head(seq)})

ContinentOf(r) == Strip(Or(Get(r, "CONTINENT"), <<>>))
StateOf(r) == Strip(Or(Get(r, "STATE"), <<>>))
CountryOf(r) == Strip(Or(Get(r, "COUNTRYWORKED"), <<>>))

\* the key under which add_record counts the record r in one of its dicts
KeyIn(dict, r) ==
  CASE dict = "operator" -> OperatorOf(r)
    [] dict = "mode" -> ModeOf(r)
    [] dict = "continent" -> ContinentOf(r)
    [] dict = "state" -> StateOf(r)
    [] dict = "country" -> CountryOf(r)
    [] dict = "band" -> BandOf(r)
    [] dict = "stations" -> StationOf(r)

\* the keys of one of the dicts that add_record fills, in insertion order
InsertionOrder(log, dict) ==
  LET merged == FirstPerKey(log)
  IN FirstSeen([i \in DOMAIN merged |-> KeyIn(dict, merged[i])], {})

\* s without its i-th item
Without(s, i) == SubSeq(s, 1, i - 1) \o SubSeq(s, i + 1, Len(s))

\* rows in insertion order, unsorted: a faulty SortedRows
UnsortedRows(order, d) == [i \in DOMAIN order |-> [key |-> order[i], count |-> d[order[i]]]]

\* [{key_name: k, "Contacts": v} for k, v in sorted(d.items(), key=lambda kv:
\* kv[1], reverse=True)]: by count, largest first; sorted() is stable, so keys
\* of equal count stay in insertion order
RECURSIVE SortedRows(_, _)
SortedRows(order, d) ==
  IF order = <<>> THEN <<>>
  ELSE LET i == CHOOSE j \in DOMAIN order :
                  /\ \A k \in DOMAIN order : d[order[k]] <= d[order[j]]
                  /\ \A k \in 1..(j - 1) : d[order[k]] < d[order[j]]
       IN <<[key |-> order[i], count |-> d[order[i]]]>> \o SortedRows(Without(order, i), d)

\* config.get(k, default)
ConfigGet(config, k, default) == IF k \in DOMAIN config THEN config[k] ELSE default

\* min(a, b)
Min(a, b) == IF a < b THEN a ELSE b

\* the boolean bonuses in the order _calculate_field_day_bonus reads them,
\* before and after the NTS messages
FlagsBeforeNts ==
  << <<"emergency_power", "100% Emergency Power">>,
     <<"media_publicity", "Media Publicity">>,
     <<"public_location", "Public Location">>,
     <<"public_information_table", "Public Information Table">> >>

FlagsAfterNts ==
  << <<"satellite_qso", "Satellite QSO">>,
     <<"w1aw_bulletin", "W1AW Bulletin Copy">>,
     <<"educational_activity", "Educational Activity">>,
     <<"social_media", "Social Media">>,
     <<"youth_participation", "Youth Participation">>,
     <<"site_visit_official", "Site Visit by Official">> >>

\* the bonus_breakdown entries of the flags that are set
RECURSIVE FlagBonuses(_, _)
FlagBonuses(config, flags) ==
  IF flags = <<>> THEN <<>>
  ELSE (IF ConfigGet(config, Head(flags)[1], FALSE)
        THEN <<[name |-> Head(flags)[2], points |-> 100]>> ELSE <<>>)
         \o FlagBonuses(config, Tail(flags))

RECURSIVE SumPoints(_)
SumPoints(rows) == IF rows = <<>> THEN 0 ELSE Head(rows).points + SumPoints(Tail(rows))

\* a faulty ClassMultiplier that takes the class code for a number it is not
ClassMultiplierOne(fd_class) == 1

\* int(fd_class[0]) if fd_class and fd_class[0].isdigit() else 1
ClassMultiplier(fd_class) ==
  IF fd_class # <<>> /\ fd_class[1] \in Digits THEN DigitVal(fd_class[1]) ELSE 1

\* Aggregates._calculate_field_day_bonus(config); the name of the NTS entry is
\* written without the message count it carries
FieldDayBonus(config) ==
  LET fd_class == ConfigGet(config, "field_day_class", <<"1", "A">>)
      nts_originated == Min(ConfigGet(config, "nts_message_originated", 0), 10)
      nts_handled == Min(ConfigGet(config, "nts_message_handled", 0), 10)
      nts_total_points == (nts_originated + nts_handled) * 10
      breakdown ==
        FlagBonuses(config, FlagsBeforeNts)
          \o (IF nts_total_points > 0
              THEN <<[name |-> "NTS Messages", points |-> nts_total_points]>> ELSE <<>>)
          \o FlagBonuses(config, FlagsAfterNts)
  IN [bonusPoints |-> SumPoints(breakdown),
      bonusBreakdown |-> breakdown,
      classMultiplier |-> ClassMultiplier(fd_class),
      powerMultiplier |-> IF ConfigGet(config, "emergency_power", FALSE) THEN 2 ELSE 1,
      fdClass |-> fd_class]

\* round(n / d) of non-negative n and positive d: to the nearest integer, a
\* half going to the even one
Round(n, d) ==
  LET q == n \div d
      twice == 2 * (n % d)
  IN IF twice < d THEN q
     ELSE IF twice > d THEN q + 1
     ELSE IF q % 2 = 0 THEN q ELSE q + 1

\* rate_20min (threshold 20, scale 3) and rate_60min (threshold 60, scale 1)
\* of _calculate_rates, from len(all_qso_times) and len(qsos_by_hour)
RateOver(times, hours, threshold, scale) ==
  IF times = 0 THEN 0
  ELSE IF times >= threshold THEN Min(times, threshold) * scale
  ELSE Round(times, IF hours < 1 THEN 1 ELSE hours)

\* Aggregates._calculate_rates(): the short-term rates and the hour count
\* (bandRates, hourlyTotals and bestHour are left out)
CalculateRates(a) ==
  LET times == Len(a.all_qso_times)
      hours == Cardinality(DOMAIN a.qsos_by_hour)
  IN [rate20min |-> RateOver(times, hours, 20, 3),
      rate60min |-> RateOver(times, hours, 60, 1),
      totalHours |-> hours]

\* Aggregates.snapshot(config) on the state a that the calls of log built; a
\* config of None and an empty one are both written as the empty dict.
\* "stations" is list(self.stations.values()): a new list of the station
\* dicts themselves, not of copies, so each item is written here as the name
\* under which the registry holds the dict it refers to.  meta.generatedUtc
\* is left out, and sectionsList is the set it lists.
Snapshot(a, log, config) ==
  LET given == DOMAIN config # {}
      field_day_bonus == FieldDayBonus(config)
      bonus_points == IF given THEN field_day_bonus.bonusPoints ELSE 0
      class_mult == IF given THEN field_day_bonus.classMultiplier ELSE 1
      power_mult == IF given THEN field_day_bonus.powerMultiplier ELSE 1
  IN [totals |-> [contacts |-> a.total_contacts,
                  points |-> a.total_points,
                  bonusPoints |-> bonus_points,
                  finalScore |-> (a.total_points * class_mult * power_mult) + bonus_points,
                  classMultiplier |-> class_mult,
                  powerMultiplier |-> power_mult],
      contactsByOperator |-> SortedRows(InsertionOrder(log, "operator"), a.contacts_by_operator),
      pointsByOperator |-> SortedRows(InsertionOrder(log, "operator"), a.points_by_operator),
      contactsByMode |-> SortedRows(InsertionOrder(log, "mode"), a.contacts_by_mode),
      contactsByContinent |-> SortedRows(InsertionOrder(log, "continent"), a.contacts_by_continent),
      contactsByState |-> SortedRows(InsertionOrder(log, "state"), a.contacts_by_state),
      contactsByCountry |-> SortedRows(InsertionOrder(log, "country"), a.contacts_by_country),
      contactsByBand |-> SortedRows(InsertionOrder(log, "band"), a.contacts_by_band),
      multipliers |-> [sections |-> Cardinality(a.sections_worked),
                       sectionsList |-> a.sections_worked],
      stations |-> InsertionOrder(log, "stations"),
      rateStats |-> CalculateRates(a),
      fieldDayBonus |-> IF given THEN field_day_bonus ELSE None]

(***************************************************************************)
(* The inputs                                                              *)
(***************************************************************************)

\* the most add_record calls a run of Spec makes
MaxCalls == 3

\* the most add_record calls a run of SpecAgg makes
MaxAggCalls == 6

\* the most add_record calls a run of SpecSnap makes
MaxSnapCalls == 3

\* the most add_record calls a run of SpecRates makes after its seed
MaxRateCalls == 2

\* the most chunks in a row that n3fjp_cmd receives within one tick of the clock
MaxBurst == 2

\* the most tokens of a text parse_cmd_records is called with in SpecParse
MaxTextLen == 5

sW1AW == <<"W", "1", "A", "W">>
sK1ABC == <<"K", "1", "A", "B", "C">>
sCW == <<"C", "W">>
sPH == <<"P", "H">>

\* One logged contact as the peer writes it: its key comes last.
WireContact1 == <<Pair("CALL", sW1AW), Pair("MODE", sCW), Pair("FLDPRIMARYKEY", <<"1">>)>>

\* A contact whose key is not a number.
WireContactX == <<Pair("call", sK1ABC), Pair("PRIMARYKEY", <<"x">>), Pair("MODETEST", <<"p", "h">>)>>

\* Contact 1 as a later LIST writes it: the same key with a leading zero.
WireContact1Padded == <<Pair("FLDPRIMARYKEY", <<"0", "1">>), Pair("MODE", sPH)>>

\* The responses a LIST command may receive: nothing; contact 1 in
\* marker-per-record framing; the same response cut by the idle timeout after
\* its first pair (the second pair left as a fragment); contact X in a closed
\* block; and contacts 1 (padded key) and X in closed blocks behind the
\* command echo.
Responses ==
  { <<>>,
    <<OpenTok>> \o WireContact1,
    <<OpenTok, WireContact1[1], FragTok>>,
    <<OpenTok>> \o WireContactX \o <<CloseTok>>,
    <<Pair("CMD", <<>>), OpenTok>> \o WireContact1Padded \o <<CloseTok, OpenTok>>
       \o WireContactX \o <<CloseTok>> }

s20M == <<"2", "0", "M">>
s40M == <<"4", "0", "M">>
sOp1 == <<"K", "C", "9">>
sOp2 == <<"W", "X", "0">>
sTrailer == <<"T", "r", "l">>

\* The records add_record is called with in SpecAgg, each as the parser
\* returns it: a fully described contact with key 1; another contact under
\* the same key written "01"; a contact with no key, operator, mode or
\* station and a compact date; a contact with a key that is no number and a
\* time too short to hold an hour; a contact keyed by the second key field,
\* the first being empty, with a mode test the lookup does not know and a
\* date that ends at its slash.
Records ==
  { ParseTags(<<Pair("CALL", sW1AW), Pair("FLDPRIMARYKEY", <<"1">>),
                Pair("FLDOPERATOR", sOp1), Pair("MODE", sCW), Pair("MODETEST", sCW),
                Pair("BAND", s20M), Pair("CONTINENT", <<"N", "A">>),
                Pair("STATE", <<"I", "L">>), Pair("COUNTRYWORKED", <<"U", "S", "A">>),
                Pair("ARRLSECTION", <<"I", "L">>), Pair("DATE", <<"0", "1", "/", "2", "6">>),
                Pair("TIMEON", <<"2", "1", ":", "5", "9">>), Pair("STATION", sTrailer)>>),
    ParseTags(<<Pair("CALL", sK1ABC), Pair("PRIMARYKEY", <<"0", "1">>),
                Pair("OPERATOR", sOp2), Pair("MODE", sPH), Pair("MODETEST", <<"p", "h">>),
                Pair("BAND", s40M), Pair("STATION", sTrailer)>>),
    ParseTags(<<Pair("call", sK1ABC), Pair("BAND", <<" ", "2", "0", "M", " ">>),
                Pair("QSODATE", <<"2", "0", "2", "6", "0", "1", "2", "6">>),
                Pair("FLDTIMEON", <<"2", "2", "0", "5">>)>>),
    ParseTags(<<Pair("CALL", sW1AW), Pair("FLDPRIMARYKEY", <<"x">>),
                Pair("OPERATOR", sOp1), Pair("MODETEST", <<"D", "I", "G">>),
                Pair("SECTION", <<"W", "I">>), Pair("DATE", <<"1", "/", "5">>),
                Pair("TIMEON", <<"7">>), Pair("STATION", sTrailer)>>),
    ParseTags(<<Pair("FLDPRIMARYKEY", <<>>), Pair("PRIMARYKEY", <<"2">>),
                Pair("MODE", sCW), Pair("MODETEST", <<"F", "M">>), Pair("BAND", s40M),
                Pair("DATE", <<"0", "1", "/">>),
                Pair("TIMEON", <<"2", "1", ":", "5", "9">>), Pair("FLDSTATION", sTrailer)>>) }

\* What the texts of SpecParse are made of: the marker and its closing
\* delimiter in both spellings, a CALL pair, a call pair in lower case with a
\* padded value, a MODE pair, the command echo, and a cut pair.
ParseTokens ==
  { OpenTok, OpenWsTok, CloseTok, CloseWsTok, FragTok,
    Pair("CALL", sW1AW), Pair("call", <<" ">> \o sK1ABC \o <<" ">>), Pair("MODE", sCW),
    Pair("CMD", <<>>) }

\* The texts of SpecParse: every sequence of at most MaxTextLen tokens in
\* which a cut pair, where there is one, is what the read ended on.
Texts ==
  { text \in UNION {[1..n -> ParseTokens] : n \in 0..MaxTextLen} :
      \A i \in 1..(Len(text) - 1) : text[i] # FragTok }

\* The contacts of a seed in SpecRates: one timestamped, one with no date.
BulkRecords ==
  { ParseTags(<<Pair("CALL", sK1ABC), Pair("BAND", s20M),
                Pair("QSODATE", <<"2", "0", "2", "6", "0", "1", "2", "6">>),
                Pair("FLDTIMEON", <<"2", "2", "0", "5">>)>>),
    ParseTags(<<Pair("CALL", sW1AW), Pair("BAND", s40M), Pair("MODETEST", sCW)>>) }

\* The sizes of a seed in SpecRates: none, and one short of each threshold.
BulkCounts == {0, 19, 59}

\* The scoring configurations: none at all; class 2A on emergency power with
\* two more bonuses (multipliers 2 and 2, bonus 300); a class code with no
\* leading digit and more NTS messages than count; class 0 with nothing set.
Configs ==
  { EmptyDict,
    [field_day_class |-> <<"2", "A">>, emergency_power |-> TRUE,
     media_publicity |-> TRUE, public_location |-> TRUE, satellite_qso |-> FALSE],
    [field_day_class |-> <<"A">>, nts_message_originated |-> 12, nts_message_handled |-> 3,
     youth_participation |-> TRUE],
    [field_day_class |-> <<"0", "B">>, emergency_power |-> FALSE] }

\* cfg, the configuration the server's poller is built with
PollerConfig ==
  [field_day_class |-> <<"2", "A">>, emergency_power |-> TRUE,
   media_publicity |-> TRUE, public_location |-> TRUE, satellite_qso |-> FALSE]

\* total_timeout and idle_timeout of an n3fjp_cmd call, in ticks of the clock
TotalTimeouts == {4, 5}
IdleTimeouts == {1, 2}

\* str(e) of the exceptions a fetch raises
Errors == {"[Errno 111] Connection refused", "timed out"}

seed_count == 5000
tail_count == 80

(***************************************************************************)
(* State                                                                   *)
(***************************************************************************)

VARIABLES
  agg,       \* ScoreboardApiPoller.agg
  diag,      \* ScoreboardApiPoller.diag
  lock,      \* ScoreboardApiPoller._lock: "free", or its holder
  stop,      \* the stop event (_stop)
  pc,        \* where the poll_forever task is
  fut,       \* the asyncio.to_thread future the task awaits
  recs,      \* the records of the batch still to merge
  reader,    \* where the request handler is
  snap,      \* the last snapshot() call still in use: its argument and what it returned
  cmd,       \* the n3fjp_cmd call under study: its locals, its position, the clock
  callLog    \* history: every record passed to add_record, in order

vars == <<agg, diag, lock, stop, pc, fut, recs, reader, snap, cmd, callLog>>

NoFut == [kind |-> "none", text |-> <<>>, msg |-> ""]
Pending == [kind |-> "pending", text |-> <<>>, msg |-> ""]
Raw(text) == [kind |-> "raw", text |-> text, msg |-> ""]
Exc(msg) == [kind |-> "exc", text |-> <<>>, msg |-> msg]

\* no n3fjp_cmd call is under study
NoCmd == [at |-> "none"]

FetchPcs == {"seed_fetch", "poll_fetch"}
LockPcs == {"seed_lock", "poll_lock"}
MergePcs == {"seed_merge", "poll_merge"}

Init ==
  /\ agg = EmptyAgg
  /\ diag = [n3fjp |-> [host |-> "127.0.0.1", port |-> 1100],
             seed |-> EmptyDict,
             poll |-> EmptyDict]
  /\ lock = "free"
  /\ stop = FALSE
  /\ pc = "idle"
  /\ fut = NoFut
  /\ recs = <<>>
  /\ reader = "idle"
  /\ snap = EmptyDict
  /\ cmd = NoCmd
  /\ callLog = <<>>

(***************************************************************************)
(* The poll_forever task                                                   *)
(***************************************************************************)

\* diag[which] as _do_list writes it (the clock reading, the byte count and
\* the timeouts are left out; sampleFields is the set of the first record's keys)
ListDiag(n, text, parsed) ==
  [requested |-> n,
   recordsParsed |-> Len(parsed),
   hasListResponseMarker |-> \E i \in DOMAIN text : text[i].t = "open",
   hasListResponseClose |-> \E i \in DOMAIN text : text[i].t = "close",
   sampleFields |-> IF parsed # <<>> THEN DOMAIN parsed[1] ELSE {}]

\* a faulty LoopTop whose loop runs the seed again
LoopTopSeedAgain ==
  IF stop THEN pc' = "stopped" /\ fut' = NoFut
  ELSE pc' = "seed_fetch" /\ fut' = Pending

\* while not stop_event.is_set(): the task goes on to the next poll_once and
\* its fetch, or leaves the loop
LoopTop ==
  IF stop THEN pc' = "stopped" /\ fut' = NoFut
  ELSE pc' = "poll_fetch" /\ fut' = Pending

\* a faulty StartTask whose seed() takes the lock before it fetches
StartTaskLocked ==
  /\ pc = "idle"
  /\ pc' = "seed_fetch"
  /\ fut' = Pending
  /\ lock' = "task"
  /\ UNCHANGED <<cmd, agg, diag, stop, recs, reader, snap, callLog>>

\* lifespan: asyncio.create_task(poller.poll_forever(_stop)); the task runs to
\* its first await, the seed fetch handed to a thread
StartTask ==
  /\ pc = "idle"
  /\ pc' = "seed_fetch"
  /\ fut' = Pending
  /\ UNCHANGED <<cmd, agg, diag, lock, stop, recs, reader, snap, callLog>>

\* n3fjp_cmd returns the bytes it read
ThreadReturn(text) ==
  /\ pc \in FetchPcs
  /\ fut = Pending
  /\ Len(callLog) + Len(ParseCmdRecords(text)) <= MaxCalls
  /\ fut' = Raw(text)
  /\ UNCHANGED <<cmd, agg, diag, lock, stop, pc, recs, reader, snap, callLog>>

\* n3fjp_cmd raises: the connection is refused, times out or is reset
ThreadRaise(msg) ==
  /\ pc \in FetchPcs
  /\ fut = Pending
  /\ fut' = Exc(msg)
  /\ UNCHANGED <<cmd, agg, diag, lock, stop, pc, recs, reader, snap, callLog>>

\* _do_list after the await: decode, parse, write diag[which], return the
\* records to seed or poll_once, which goes on to take the lock
ListDone ==
  /\ pc \in FetchPcs
  /\ fut.kind = "raw"
  /\ LET parsed == ParseCmdRecords(fut.text)
     IN /\ recs' = parsed
        /\ diag' = IF pc = "seed_fetch"
                   THEN [diag EXCEPT !.seed = ListDiag(seed_count, fut.text, parsed)]
                   ELSE [diag EXCEPT !.poll = ListDiag(tail_count, fut.text, parsed)]
  /\ pc' = IF pc = "seed_fetch" THEN "seed_lock" ELSE "poll_lock"
  /\ fut' = NoFut
  /\ UNCHANGED <<cmd, agg, lock, stop, reader, snap, callLog>>

\* a faulty SeedFailed with no try/except around seed(): the exception
\* ends the task
SeedFailedUncaught ==
  /\ pc = "seed_fetch"
  /\ fut.kind = "exc"
  /\ pc' = "stopped"
  /\ fut' = NoFut
  /\ UNCHANGED <<cmd, agg, diag, lock, stop, recs, reader, snap, callLog>>

\* poll_forever: except Exception as e around seed(): the error text is kept
\* and the loop is entered
SeedFailed ==
  /\ pc = "seed_fetch"
  /\ fut.kind = "exc"
  /\ diag' = Put(diag, "seedError", fut.msg)
  /\ LoopTop
  /\ UNCHANGED <<cmd, agg, lock, stop, recs, reader, snap, callLog>>

\* a faulty PollFailed whose handler drops the error text
PollFailedSilent ==
  /\ pc = "poll_fetch"
  /\ fut.kind = "exc"
  /\ pc' = "wait"
  /\ fut' = NoFut
  /\ UNCHANGED <<cmd, agg, diag, lock, stop, recs, reader, snap, callLog>>

\* poll_forever: except Exception as e around poll_once(): the error text is
\* kept and the task goes on to wait out the interval
PollFailed ==
  /\ pc = "poll_fetch"
  /\ fut.kind = "exc"
  /\ diag' = Put(diag, "pollError", fut.msg)
  /\ pc' = "wait"
  /\ fut' = NoFut
  /\ UNCHANGED <<cmd, agg, lock, stop, recs, reader, snap, callLog>>

\* async with self._lock, entered
Acquire ==
  /\ pc \in LockPcs
  /\ lock = "free"
  /\ lock' = "task"
  /\ pc' = IF pc = "seed_lock" THEN "seed_merge" ELSE "poll_merge"
  /\ UNCHANGED <<cmd, agg, diag, stop, fut, recs, reader, snap, callLog>>

\* for r in recs: self.agg.add_record(r), one record
MergeOne ==
  /\ pc \in MergePcs
  /\ recs # <<>>
  /\ agg' = add_record(agg, Head(recs))
  /\ callLog' = Append(callLog, Head(recs))
  /\ recs' = Tail(recs)
  /\ UNCHANGED <<cmd, diag, lock, stop, pc, fut, reader, snap>>

\* async with self._lock, left after the seed's batch: the loop is entered
SeedDone ==
  /\ pc = "seed_merge"
  /\ recs = <<>>
  /\ lock' = "free"
  /\ LoopTop
  /\ UNCHANGED <<cmd, agg, diag, stop, recs, reader, snap, callLog>>

\* async with self._lock, left after a poll's batch: the task waits
PollDone ==
  /\ pc = "poll_merge"
  /\ recs = <<>>
  /\ lock' = "free"
  /\ pc' = "wait"
  /\ UNCHANGED <<cmd, agg, diag, stop, fut, recs, reader, snap, callLog>>

\* a faulty WaitEnd whose loop never reads the stop event
WaitEndForever ==
  /\ pc = "wait"
  /\ pc' = "poll_fetch"
  /\ fut' = Pending
  /\ UNCHANGED <<cmd, agg, diag, lock, stop, recs, reader, snap, callLog>>

\* asyncio.wait_for(stop_event.wait(), timeout=refresh_seconds) ends, by the
\* event or by the timeout, and the loop condition is read again
WaitEnd ==
  /\ pc = "wait"
  /\ LoopTop
  /\ UNCHANGED <<cmd, agg, diag, lock, stop, recs, reader, snap, callLog>>

(***************************************************************************)
(* lifespan's shutdown                                                     *)
(***************************************************************************)

\* _stop.set(): lifespan resumes after its yield only at shutdown, by when the
\* task created at startup has run to its first await
SetStop ==
  /\ pc # "idle"
  /\ ~stop
  /\ stop' = TRUE
  /\ UNCHANGED <<cmd, agg, diag, lock, pc, fut, recs, reader, snap, callLog>>

\* asyncio.wait_for(task, timeout=2.0) times out and cancels the task, which
\* is at an await: CancelledError is no Exception, so no handler of
\* poll_forever catches it
Cancel ==
  /\ stop
  /\ pc \in FetchPcs \cup LockPcs
  /\ pc' = "cancelled"
  /\ fut' = NoFut
  /\ recs' = <<>>
  /\ UNCHANGED <<cmd, agg, diag, lock, stop, reader, snap, callLog>>

(***************************************************************************)
(* The request handlers                                                    *)
(***************************************************************************)

\* GET /api/snapshot arrives: get_snapshot reaches async with self._lock
SnapshotRequest ==
  /\ pc # "idle"
  /\ reader = "idle"
  /\ reader' = "snapshot_lock"
  /\ UNCHANGED <<cmd, agg, diag, lock, stop, pc, fut, recs, snap, callLog>>

\* a faulty SnapshotTake that computes the snapshot without the lock
SnapshotTakeUnlocked ==
  /\ reader = "snapshot_lock"
  /\ lock' = lock
  /\ snap' = [arg |-> PollerConfig, ret |-> Snapshot(agg, callLog, PollerConfig)]
  /\ reader' = "snapshot"
  /\ UNCHANGED <<cmd, agg, diag, stop, pc, fut, recs, callLog>>

\* get_snapshot takes the lock and computes the snapshot
SnapshotTake ==
  /\ reader = "snapshot_lock"
  /\ lock = "free"
  /\ lock' = "reader"
  /\ snap' = [arg |-> PollerConfig, ret |-> Snapshot(agg, callLog, PollerConfig)]
  /\ reader' = "snapshot"
  /\ UNCHANGED <<cmd, agg, diag, stop, pc, fut, recs, callLog>>

\* get_snapshot returns, releasing the lock
SnapshotReturn ==
  /\ reader = "snapshot"
  /\ lock' = "free"
  /\ snap' = EmptyDict
  /\ reader' = "idle"
  /\ UNCHANGED <<cmd, agg, diag, stop, pc, fut, recs, callLog>>

\* a faulty GetDiag that reads under the lock
GetDiagLocked ==
  /\ pc # "idle"
  /\ reader = "idle"
  /\ lock = "free"
  /\ lock' = "reader"
  /\ reader' = "diag"
  /\ UNCHANGED <<cmd, agg, diag, stop, pc, fut, recs, snap, callLog>>

\* GET /api/diag: get_diag returns self.diag, the dict itself
GetDiag ==
  /\ pc # "idle"
  /\ reader = "idle"
  /\ reader' = "diag"
  /\ UNCHANGED <<cmd, agg, diag, lock, stop, pc, fut, recs, snap, callLog>>

\* api_diag sends the JSONResponse
DiagRespond ==
  /\ reader = "diag"
  /\ reader' = "idle"
  /\ UNCHANGED <<cmd, agg, diag, lock, stop, pc, fut, recs, snap, callLog>>

\* add_record called on its own, while fewer than max calls have been made
AddRecordUpTo(r, max) ==
  /\ Len(callLog) < max
  /\ agg' = add_record(agg, r)
  /\ callLog' = Append(callLog, r)
  /\ UNCHANGED <<cmd, diag, lock, stop, pc, fut, recs, reader, snap>>

AddRecord(r) == AddRecordUpTo(r, MaxAggCalls)

NextAgg == \E r \in Records : AddRecord(r)

\* the aggregator under every sequence of add_record calls
SpecAgg == Init /\ [][NextAgg]_vars

\* snapshot(config) called on its own, the caller keeping what it returns
TakeSnapshot(config) ==
  /\ snap' = [arg |-> config, ret |-> Snapshot(agg, callLog, config)]
  /\ UNCHANGED <<cmd, agg, diag, lock, stop, pc, fut, recs, reader, callLog>>

NextSnap ==
  \/ \E r \in Records : AddRecordUpTo(r, MaxSnapCalls)
  \/ \E config \in Configs : TakeSnapshot(config)

\* the aggregator under every sequence of add_record and snapshot calls
SpecSnap == Init /\ [][NextSnap]_vars

\* The state in which parse_cmd_records is about to be called with a text.
InitParse ==
  /\ agg = EmptyAgg
  /\ diag = [n3fjp |-> [host |-> "127.0.0.1", port |-> 1100],
             seed |-> EmptyDict,
             poll |-> EmptyDict]
  /\ lock = "free"
  /\ stop = FALSE
  /\ pc = "idle"
  /\ fut \in {Raw(text) : text \in Texts}
  /\ recs = <<>>
  /\ reader = "idle"
  /\ snap = EmptyDict
  /\ cmd = NoCmd
  /\ callLog = <<>>

\* parse_cmd_records(text) called on its own, the caller keeping the text
ParseText ==
  /\ pc = "idle"
  /\ fut.kind = "raw"
  /\ recs' = ParseCmdRecords(fut.text)
  /\ UNCHANGED <<cmd, agg, diag, lock, stop, pc, fut, reader, snap, callLog>>

\* the parser on every text
SpecParse == InitParse /\ [][ParseText]_vars

\* n copies of the record r
Copies(r, n) == [i \in 1..n |-> r]

\* The aggregator after a seed of n contacts with no key, all timestamped in
\* one hour or all undated.
InitBulk ==
  /\ \E r \in BulkRecords, n \in BulkCounts :
       /\ callLog = Copies(r, n)
       /\ agg = FoldAdd(EmptyAgg, Copies(r, n))
  /\ diag = [n3fjp |-> [host |-> "127.0.0.1", port |-> 1100],
             seed |-> EmptyDict,
             poll |-> EmptyDict]
  /\ lock = "free"
  /\ stop = FALSE
  /\ pc = "idle"
  /\ fut = NoFut
  /\ recs = <<>>
  /\ reader = "idle"
  /\ snap = EmptyDict
  /\ cmd = NoCmd

\* add_record called on its own, at most MaxRateCalls times after the seed
AddAfterBulk(r) ==
  /\ \E n \in BulkCounts : n <= Len(callLog) /\ Len(callLog) < n + MaxRateCalls
  /\ AddRecordUpTo(r, Len(callLog) + 1)

NextRates ==
  \/ \E r \in BulkRecords : AddAfterBulk(r)
  \/ \E config \in Configs : TakeSnapshot(config)

\* the aggregator around the thresholds of the short-term rates
SpecRates == InitBulk /\ [][NextRates]_vars

(***************************************************************************)
(* n3fjp_cmd.  time is the reading of time.time(), in ticks; start,        *)
(* last_data, now and chunks (the number of chunks) are the locals.  at is *)
(* the position: "connect", "top" (the head of the while loop), "recv",    *)
(* "returned" or "raised"; left is the statement that left the loop.  A    *)
(* pass of the loop takes no tick or some: burst counts the chunks         *)
(* received in a row with the clock standing.                              *)
(***************************************************************************)

\* The state in which n3fjp_cmd has read the clock into start and last_data.
InitRead ==
  /\ agg = EmptyAgg
  /\ diag = [n3fjp |-> [host |-> "127.0.0.1", port |-> 1100],
             seed |-> EmptyDict,
             poll |-> EmptyDict]
  /\ lock = "free"
  /\ stop = FALSE
  /\ pc = "idle"
  /\ fut = NoFut
  /\ recs = <<>>
  /\ reader = "idle"
  /\ snap = EmptyDict
  /\ callLog = <<>>
  /\ \E total \in TotalTimeouts, idle \in IdleTimeouts :
       cmd = [at |-> "connect", total_timeout |-> total, idle_timeout |-> idle,
              time |-> 0, start |-> 0, last_data |-> 0, now |-> 0,
              chunks |-> 0, burst |-> 0, left |-> "none"]

\* create_connection, settimeout and sendall succeed after d ticks
Connect(d) ==
  /\ cmd.at = "connect"
  /\ d < cmd.total_timeout
  /\ cmd' = [cmd EXCEPT !.at = "top", !.time = @ + d]
  /\ UNCHANGED <<agg, diag, lock, stop, pc, fut, recs, reader, snap, callLog>>

\* create_connection or sendall raises: the call ends with the exception
ConnectFails(d) ==
  /\ cmd.at = "connect"
  /\ d <= cmd.total_timeout
  /\ cmd' = [cmd EXCEPT !.at = "raised", !.time = @ + d]
  /\ UNCHANGED <<agg, diag, lock, stop, pc, fut, recs, reader, snap, callLog>>

\* a faulty ReadLoopTop whose idle test does not ask for a chunk
ReadLoopTopNoChunkTest ==
  /\ cmd.at = "top"
  /\ cmd' = [cmd EXCEPT
               !.now = cmd.time,
               !.at = IF cmd.time - cmd.start >= cmd.total_timeout
                         \/ cmd.time - cmd.last_data >= cmd.idle_timeout
                      THEN "returned" ELSE "recv",
               !.left = IF cmd.time - cmd.start >= cmd.total_timeout THEN "total"
                        ELSE IF cmd.time - cmd.last_data >= cmd.idle_timeout
                        THEN "idle" ELSE "none"]
  /\ UNCHANGED <<agg, diag, lock, stop, pc, fut, recs, reader, snap, callLog>>

\* the head of the loop: now = time.time() and the two tests that break
ReadLoopTop ==
  /\ cmd.at = "top"
  /\ cmd' = [cmd EXCEPT
               !.now = cmd.time,
               !.at = IF cmd.time - cmd.start >= cmd.total_timeout
                         \/ (cmd.chunks > 0 /\ cmd.time - cmd.last_data >= cmd.idle_timeout)
                      THEN "returned" ELSE "recv",
               !.left = IF cmd.time - cmd.start >= cmd.total_timeout THEN "total"
                        ELSE IF cmd.chunks > 0 /\ cmd.time - cmd.last_data >= cmd.idle_timeout
                        THEN "idle" ELSE "none"]
  /\ UNCHANGED <<agg, diag, lock, stop, pc, fut, recs, reader, snap, callLog>>

\* s.recv returns a chunk d ticks after it was called, within the socket's
\* timeout: chunks.append(data); last_data = time.time()
RecvData(d) ==
  /\ cmd.at = "recv"
  /\ d <= cmd.idle_timeout
  /\ d = 0 => cmd.burst < MaxBurst
  /\ cmd' = [cmd EXCEPT !.at = "top", !.time = @ + d, !.last_data = cmd.time + d,
                        !.chunks = @ + 1, !.burst = IF d = 0 THEN @ + 1 ELSE 0]
  /\ UNCHANGED <<agg, diag, lock, stop, pc, fut, recs, reader, snap, callLog>>

\* s.recv returns b"": the peer has closed, break
RecvClosed(d) ==
  /\ cmd.at = "recv"
  /\ d <= cmd.idle_timeout
  /\ cmd' = [cmd EXCEPT !.at = "returned", !.time = @ + d, !.left = "closed"]
  /\ UNCHANGED <<agg, diag, lock, stop, pc, fut, recs, reader, snap, callLog>>

\* s.recv raises socket.timeout after idle_timeout, or a tick later when the
\* thread is late to run: continue
RecvTimeout(late) ==
  /\ cmd.at = "recv"
  /\ late \in {0, 1}
  /\ cmd' = [cmd EXCEPT !.at = "top", !.time = @ + cmd.idle_timeout + late, !.burst = 0]
  /\ UNCHANGED <<agg, diag, lock, stop, pc, fut, recs, reader, snap, callLog>>

\* s.recv raises another OSError: the call ends with the exception
RecvFails(d) ==
  /\ cmd.at = "recv"
  /\ d <= cmd.idle_timeout
  /\ cmd' = [cmd EXCEPT !.at = "raised", !.time = @ + d]
  /\ UNCHANGED <<agg, diag, lock, stop, pc, fut, recs, reader, snap, callLog>>

NextRead ==
  \/ \E d \in 0..cmd.total_timeout : Connect(d)
  \/ \E d \in 0..cmd.total_timeout : ConnectFails(d)
  \/ ReadLoopTop
  \/ \E d \in 0..cmd.idle_timeout : RecvData(d)
  \/ \E d \in 0..cmd.idle_timeout : RecvClosed(d)
  \/ \E late \in {0, 1} : RecvTimeout(late)
  \/ \E d \in 0..cmd.idle_timeout : RecvFails(d)

\* one n3fjp_cmd call in its thread, which runs whenever it can
SpecRead == InitRead /\ [][NextRead]_vars /\ WF_vars(NextRead)

\* Every step of the task that waits for nothing but itself or the peer: a
\* fetch returns one of the texts or fails, and the event loop runs the task
\* again.
TaskStep(texts) ==
  \/ \E text \in texts : ThreadReturn(text)
  \/ \E msg \in Errors : ThreadRaise(msg)
  \/ ListDone
  \/ SeedFailed
  \/ PollFailed
  \/ MergeOne
  \/ SeedDone
  \/ PollDone
  \/ WaitEnd

\* The steps of everything else: the start of the task, its taking of the
\* lock, the shutdown and the request handlers.
OtherStep ==
  \/ StartTask
  \/ Acquire
  \/ SetStop
  \/ Cancel
  \/ SnapshotRequest
  \/ SnapshotTake
  \/ SnapshotReturn
  \/ GetDiag
  \/ DiagRespond

Next == TaskStep(Responses) \/ OtherStep

Spec == Init /\ [][Next]_vars

\* The responses of FairSpec: nothing, and contact 1.  What the records say
\* does not bear on the task's course.
FairResponses == {<<>>, <<OpenTok>> \o WireContact1}

NextFair == TaskStep(FairResponses) \/ OtherStep

\* The system with the scheduling asyncio gives: every fetch returns or fails
\* and a runnable task is run, a handler holding the lock releases it, and
\* the lock goes to its waiters in turn.
FairSpec ==
  /\ Init
  /\ [][NextFair]_vars
  /\ WF_vars(TaskStep(FairResponses))
  /\ WF_vars(SnapshotReturn)
  /\ SF_vars(Acquire)

(***************************************************************************)
(* Properties                                                              *)
(***************************************************************************)

\* the value of the key field of a record, as written
RawKey(r) == Or(Get(r, "FLDPRIMARYKEY"), Get(r, "PRIMARYKEY"))

\* log without each record whose non-empty key value, as written, an earlier
\* record of log carries
RECURSIVE FirstPerRawKeyFrom(_, _)
FirstPerRawKeyFrom(log, keys) ==
  IF log = <<>> THEN <<>>
  ELSE LET k == RawKey(Head(log))
       IN IF Truthy(k) /\ k \in keys THEN FirstPerRawKeyFrom(Tail(log), keys)
          ELSE <<Head(log)>>
                 \o FirstPerRawKeyFrom(Tail(log), IF Truthy(k) THEN keys \cup {k} ELSE keys)

RECURSIVE SumOf(_)
SumOf(d) ==
  IF DOMAIN d = {} THEN 0
  ELSE LET k == CHOOSE x \in DOMAIN d : TRUE
       IN d[k] + SumOf([x \in DOMAIN d \ {k} |-> d[x]])

\* the totals and per-dimension counters of an aggregate state
Counters(a) ==
  <<a.total_contacts, a.total_points, a.contacts_by_operator, a.points_by_operator,
    a.contacts_by_mode, a.contacts_by_band, a.contacts_by_continent,
    a.contacts_by_state, a.contacts_by_country>>

\* the step is an add_record call
IsAddStep == Len(callLog') = Len(callLog) + 1

\* C1: whatever the seed and the polls deliver, the aggregate state is the one
\* obtained by merging, of the records that share a non-empty primary-key
\* value as written, only the first: a keyed record delivered twice counts as
\* if delivered once.  (add_record reads the key with int(); a value int()
\* rejects leaves pk None, and the record is merged on every delivery.)
C1_OncePerWrittenKey == agg = FoldAdd(EmptyAgg, FirstPerRawKeyFrom(callLog, {}))

\* a polling round is over in which a record whose key is written but is no
\* integer has been delivered twice
C1_Witness ==
  /\ pc = "wait"
  /\ \E i, j \in DOMAIN callLog :
       /\ i < j
       /\ callLog[i] = callLog[j]
       /\ Truthy(RawKey(callLog[i]))
       /\ PrimaryKey(callLog[i]) = {}

\* C2: after any sequence of add_record calls the per-operator contact
\* counters sum to total_contacts, and so do the per-mode contact counters.
C2_CounterSums ==
  /\ SumOf(agg.contacts_by_operator) = agg.total_contacts
  /\ SumOf(agg.contacts_by_mode) = agg.total_contacts

\* records of two operators have been merged, one of them with no mode
C2_Witness ==
  /\ Cardinality(DOMAIN agg.contacts_by_operator) >= 2
  /\ <<"U", "N", "K">> \in DOMAIN agg.contacts_by_mode
  /\ Cardinality(DOMAIN agg.contacts_by_mode) >= 2

\* C3: an add_record call with a record whose primary key is present and
\* already seen leaves every part of the aggregate state as it was.
C3_DuplicateChangesNothing ==
  [][(IsAddStep /\ PrimaryKey(callLog'[Len(callLog')]) # {}
        /\ PrimaryKey(callLog'[Len(callLog')]) \subseteq agg.seen_keys)
      => agg' = agg]_vars

\* a record has been passed to add_record whose key an earlier, different
\* record carried
C3_Witness ==
  \E i, j \in DOMAIN callLog :
    /\ i < j
    /\ callLog[i] # callLog[j]
    /\ PrimaryKey(callLog[i]) # {}
    /\ PrimaryKey(callLog[i]) = PrimaryKey(callLog[j])

\* the contacts merged for a station, duplicates left out, oldest first
RECURSIVE EntriesOf(_, _)
EntriesOf(log, station) ==
  IF log = <<>> THEN <<>>
  ELSE (IF StationOf(Head(log)) = station THEN <<QsoEntry(Head(log))>> ELSE <<>>)
         \o EntriesOf(Tail(log), station)

StationHistory(station) == EntriesOf(FirstPerKey(callLog), station)

\* C4: every station's recent list holds at most 5 entries, and they are the
\* station's latest non-duplicate contacts, the most recently merged first
\* (so entry 0 is the contact of the last non-duplicate record merged for it).
C4_RecentRing ==
  \A station \in DOMAIN agg.stations :
    LET recent == agg.stations[station].recent
        history == StationHistory(station)
    IN /\ Len(recent) <= 5
       /\ Len(recent) = (IF Len(history) < 5 THEN Len(history) ELSE 5)
       /\ \A i \in DOMAIN recent : recent[i] = history[Len(history) + 1 - i]

\* a station has had more than 5 contacts merged, not all alike
C4_Witness ==
  \E station \in DOMAIN agg.stations :
    /\ Len(StationHistory(station)) > 5
    /\ agg.stations[station].recent[1] # agg.stations[station].recent[5]

\* C5: a failed seed is followed by the loop (the next poll's fetch, or the
\* end of the task when the stop event is set), a failed poll by the wait
\* and the wait by the next poll's fetch, and the task ends only with the
\* stop event set.
C5_ErrorsKeepCourse ==
  [][/\ (pc = "seed_fetch" /\ fut.kind = "exc" /\ pc' # pc)
          => (pc' = "poll_fetch" \/ (stop /\ pc' \in {"stopped", "cancelled"}))
     /\ (pc = "poll_fetch" /\ fut.kind = "exc" /\ pc' # pc)
          => (pc' = "wait" \/ (stop /\ pc' = "cancelled"))
     /\ (pc = "wait" /\ pc' # pc) => (pc' = "poll_fetch" \/ (stop /\ pc' = "stopped"))
     /\ (pc' \in {"stopped", "cancelled"}) => stop]_vars

\* the seed failed, a poll failed, and the task is fetching again
C5_Witness ==
  /\ "seedError" \in DOMAIN diag
  /\ "pollError" \in DOMAIN diag
  /\ pc = "poll_fetch"
  /\ ~stop

\* C6: from the start of a fetch to the handling of its failure nothing is
\* merged, and the handler of a failed seed (poll) leaves the aggregate state
\* as it was and records the error's text as seedError (pollError).
C6_FailedFetchMergesNothing ==
  [][/\ (pc \in FetchPcs /\ fut.kind # "raw") => (agg' = agg /\ callLog' = callLog)
     /\ (pc \in FetchPcs /\ fut.kind = "exc" /\ pc' \notin {pc, "cancelled"})
          => /\ recs' = <<>>
             /\ Get(diag', IF pc = "seed_fetch" THEN "seedError" ELSE "pollError")
                  = fut.msg]_vars

\* the seed failed with one error and, after contacts were merged, a poll
\* with another
C6_Witness ==
  /\ agg.total_contacts >= 1
  /\ pc = "wait"
  /\ Get(diag, "pollError") = "timed out"
  /\ Get(diag, "seedError") = "[Errno 111] Connection refused"

\* C7: while a fetch is in flight the task does not hold the lock, and a
\* snapshot request waiting for the lock can take it.
C7_NoLockAcrossFetch ==
  /\ pc \in FetchPcs => lock # "task"
  /\ (pc \in FetchPcs /\ reader = "snapshot_lock") => lock = "free"

\* a snapshot has been computed under the lock while the seed fetch is in
\* flight
C7_Witness ==
  /\ pc = "seed_fetch"
  /\ fut = Pending
  /\ reader = "snapshot"
  /\ lock = "reader"

\* C8 (original): diag is written only by a task that holds the lock, and
\* get_diag returns holding the lock.
C8_DiagUnderLock ==
  [][/\ diag' # diag => lock = "task"
     /\ (reader' = "diag" /\ reader # "diag") => lock' = "reader"]_vars

\* C8 (amended): diag is not guarded by the lock: the task writes the fetch
\* metadata and the error text while it does not hold the lock, and get_diag
\* returns without taking the lock, whoever holds it.
C8_DiagOutsideLock ==
  [][/\ diag' # diag => (lock # "task" /\ lock' = lock)
     /\ (reader' = "diag" /\ reader # "diag") => lock' = lock]_vars

\* get_diag has returned, after the seed wrote its metadata, while a merge
\* holds the lock
C8_Witness ==
  /\ reader = "diag"
  /\ diag.seed # EmptyDict
  /\ lock = "task"

\* C9: once the stop event is set the task starts no fetch, a wait ends in
\* the end of the task, and the task ends.
C9_StopEndsTask ==
  /\ [][stop => ~(pc' \in FetchPcs /\ pc' # pc)]_vars
  /\ [][(stop /\ pc = "wait" /\ pc' # pc) => pc' = "stopped"]_vars
  /\ stop ~> (pc \in {"stopped", "cancelled"})

\* the loop has been left, after a poll's merge, with no cancellation
C9_Witness ==
  /\ pc = "stopped"
  /\ diag.poll # EmptyDict
  /\ Len(callLog) >= 1

\* f holds some, not all, of the tag pairs of c
IsFragmentOf(f, c) ==
  /\ DOMAIN f # {}
  /\ DOMAIN f \subseteq DOMAIN c
  /\ DOMAIN f # DOMAIN c
  /\ \A k \in DOMAIN f : f[k] = c[k]

\* log without each record of which a later record of log is the complete form
RECURSIVE WithoutFragments(_)
WithoutFragments(log) ==
  IF log = <<>> THEN <<>>
  ELSE (IF \E j \in DOMAIN Tail(log) : IsFragmentOf(Head(log), Tail(log)[j])
        THEN <<>> ELSE <<Head(log)>>)
         \o WithoutFragments(Tail(log))

\* C10: when a fetch delivered a record cut short and a later fetch delivers
\* it complete, the totals and the per-dimension counters are those of
\* merging the complete record alone.
C10_TruncatedThenComplete ==
  Counters(agg) = Counters(FoldAdd(EmptyAgg, WithoutFragments(callLog)))

\* the record of the add_record call a step makes
AddedRecord == callLog'[Len(callLog')]

\* the step is an add_record call that does not return at the duplicate test
IsMergeStep == IsAddStep /\ ~(PrimaryKey(AddedRecord) # {} /\ PrimaryKey(AddedRecord) \subseteq agg.seen_keys)

\* the stripped value of a field of a record, empty when the field is absent
FieldOf(r, name) == Strip(Or(Get(r, name), <<>>))

\* the optional dimensions: the counter map and the field that feeds it
OptionalDimensions ==
  { <<"contacts_by_band", "BAND">>, <<"contacts_by_continent", "CONTINENT">>,
    <<"contacts_by_state", "STATE">>, <<"contacts_by_country", "COUNTRYWORKED">> }

\* C11 (original): a merge of a record with no value for a dimension leaves
\* that dimension's counter map as it was, for mode, band, continent, state
\* and country alike.
C11_AbsentDimensionSkipped ==
  [][IsMergeStep =>
       /\ FieldOf(AddedRecord, "MODE") = <<>> => agg'.contacts_by_mode = agg.contacts_by_mode
       /\ \A dim \in OptionalDimensions :
            FieldOf(AddedRecord, dim[2]) = <<>> => agg'[dim[1]] = agg[dim[1]]]_vars

\* C11 (amended): a merge of a record with no value for band, continent,
\* state or country leaves that dimension's counter map as it was; a record
\* with no mode is counted under the mode "UNK".
C11_AbsentDimensionSkippedButMode ==
  [][IsMergeStep =>
       /\ FieldOf(AddedRecord, "MODE") = <<>>
            => agg'.contacts_by_mode = Inc(agg.contacts_by_mode, <<"U", "N", "K">>, 1)
       /\ \A dim \in OptionalDimensions :
            FieldOf(AddedRecord, dim[2]) = <<>> => agg'[dim[1]] = agg[dim[1]]]_vars

\* the last record merged had no mode, band, continent, state or country,
\* after records that had them
C11_Witness ==
  /\ Len(callLog) >= 2
  /\ agg.total_contacts = Len(callLog)
  /\ \A name \in {"MODE", "BAND", "CONTINENT", "STATE", "COUNTRYWORKED"} :
       FieldOf(callLog[Len(callLog)], name) = <<>>
  /\ \A dim \in OptionalDimensions : DOMAIN agg[dim[1]] # {}
  /\ sCW \in DOMAIN agg.contacts_by_mode

\* The date or the time of the record is missing, or the parser cannot read
\* it: the date has no slash and is not eight digits, or has a slash with no
\* day after it, or the time without its colons is shorter than an hour.
TimestampUnreadable(r) ==
  LET d == QsoDateOf(r)
      t == QsoTimeOf(r)
      slash == \E i \in DOMAIN d : d[i] = "/"
  IN \/ d = <<>>
     \/ t = <<>>
     \/ ~slash /\ ~(Len(d) = 8 /\ IsDigitStr(d))
     \/ slash /\ Strip(Split(d, "/")[2]) = <<>>
     \/ Len(Strip(DropColons(t))) < 2

\* r with a date and a time the parser reads
Stamped(r) ==
  Put(Put(r, "DATE", <<"0", "1", "/", "2", "6">>), "TIMEON", <<"2", "1", ":", "5", "9">>)

\* a station registry with the times of its entries left out
Untimed(stations) ==
  [st \in DOMAIN stations |->
     [name |-> stations[st].name,
      operator |-> stations[st].operator,
      band |-> stations[st].band,
      mode |-> stations[st].mode,
      recent |-> [i \in DOMAIN stations[st].recent |->
                    [call |-> stations[st].recent[i].call,
                     operator |-> stations[st].recent[i].operator,
                     band |-> stations[st].recent[i].band,
                     mode |-> stations[st].recent[i].mode]]]]

\* the seen keys, the totals and per-dimension counters, the sections and the
\* station registry of an aggregate state
Untimestamped(a) == <<a.seen_keys, Counters(a), a.sections_worked, Untimed(a.stations)>>

PointsAsWritten(v) ==
  IF v = sPH THEN 1 ELSE IF v \in {sCW, <<"D", "I", "G">>} THEN 2 ELSE 0

\* the points of a mode-test value read without regard to letter case
PointsAnyCase(v) ==
  IF \E w \in {sPH} : Upper(v) = w THEN 1
  ELSE IF \E w \in {sCW, <<"D", "I", "G">>} : Upper(v) = w THEN 2
  ELSE 0

\* a merge adds pts to the total points and to the points of the record's
\* operator, and 1 to the total contacts and to the operator's contacts
MergeScores(pts) ==
  LET op == OperatorOf(AddedRecord)
  IN /\ agg'.total_points = agg.total_points + pts
     /\ agg'.points_by_operator = Inc(agg.points_by_operator, op, pts)
     /\ agg'.total_contacts = agg.total_contacts + 1
     /\ agg'.contacts_by_operator = Inc(agg.contacts_by_operator, op, 1)

\* C14 (original): every merge scores the record's MODETEST value as written:
\* 1 for "PH", 2 for "CW" and "DIG", 0 for an empty, absent or other value.
C14_PointsAsWritten ==
  [][IsMergeStep => MergeScores(PointsAsWritten(Or(Get(AddedRecord, "MODETEST"), <<>>)))]_vars

\* C14 (amended): every merge scores the record's MODETEST value without
\* regard to letter case: 1 for "PH", 2 for "CW" and "DIG" however
\* capitalised, 0 for an empty, absent or other value.
C14_PointsAnyCase ==
  [][IsMergeStep => MergeScores(PointsAnyCase(Or(Get(AddedRecord, "MODETEST"), <<>>)))]_vars

\* contacts scoring 1 (ph), 2 (DIG) and 0 (FM, none) have been merged, each
\* by a different call
C14_Witness ==
  /\ agg.total_contacts = Len(callLog)
  /\ \E j, k, m \in DOMAIN callLog :
       /\ Get(callLog[j], "MODETEST") = <<"p", "h">>
       /\ Get(callLog[k], "MODETEST") = <<"F", "M">>
       /\ Get(callLog[m], "MODETEST") = <<"D", "I", "G">>
  /\ \E i \in DOMAIN callLog : Get(callLog[i], "MODETEST") = None
  /\ agg.total_points = 3

\* a snapshot as its holder reads it while the aggregate state is a: each
\* item of "stations" is the station dict the registry holds
HeldView(ret, a) ==
  [ret EXCEPT !.stations = [i \in DOMAIN ret.stations |-> a.stations[ret.stations[i]]]]

\* C13: snapshot() leaves the aggregate state as it was, and no add_record
\* call after it changes what a held snapshot reads as: its totals, its
\* breakdown lists, its station entries and their recent-contact lists.
C13_SnapshotImmutable ==
  [][/\ snap' # snap => agg' = agg
     /\ (snap # EmptyDict /\ snap' = snap)
          => HeldView(snap.ret, agg') = HeldView(snap.ret, agg)]_vars

\* a snapshot is held that lists a station for which a contact has been
\* merged since
C13_Witness ==
  /\ snap # EmptyDict
  /\ snap.ret.totals.contacts < agg.total_contacts
  /\ \E i \in DOMAIN snap.ret.stations :
       StationOf(callLog[Len(callLog)]) = snap.ret.stations[i]

\* the step is a snapshot() call
IsSnapshotStep == snap' # snap /\ snap' # EmptyDict

\* the leading digit of a class code, 1 when it does not start with a digit
LeadingDigit(code) ==
  IF code # <<>> /\ IsDigitStr(<<Head(code)>>) THEN DigitsValue(<<Head(code)>>) ELSE 1

\* C15: in the snapshot a call returns, points is the running total of
\* contact points, classMultiplier the leading digit of the configured class
\* code (1 without one; the code is "1A" when none is configured),
\* powerMultiplier 2 with the emergency-power flag set and 1 otherwise, and
\* finalScore = points * classMultiplier * powerMultiplier + bonusPoints; and
\* base 100 with class 2, power 2 and bonus 300 gives 700.
C15_FinalScore ==
  /\ [][IsSnapshotStep =>
          LET t == snap'.ret.totals
              config == snap'.arg
          IN /\ t.points = agg.total_points
             /\ t.classMultiplier = LeadingDigit(ConfigGet(config, "field_day_class", <<"1", "A">>))
             /\ t.powerMultiplier = (IF ConfigGet(config, "emergency_power", FALSE) THEN 2 ELSE 1)
             /\ t.finalScore = t.points * t.classMultiplier * t.powerMultiplier + t.bonusPoints]_vars
  /\ LET t == Snapshot([EmptyAgg EXCEPT !.total_points = 100], <<>>, PollerConfig).totals
     IN t.classMultiplier = 2 /\ t.powerMultiplier = 2 /\ t.bonusPoints = 300 /\ t.finalScore = 700

\* a snapshot has been returned with 3 points, class 2, emergency power and
\* a bonus of 300
C15_Witness ==
  /\ snap # EmptyDict
  /\ snap.ret.totals.points = 3
  /\ snap.ret.totals.classMultiplier = 2
  /\ snap.ret.totals.powerMultiplier = 2
  /\ snap.ret.totals.bonusPoints = 300
  /\ snap.ret.totals.finalScore = 312

\* the breakdown lists of a snapshot and the counter each is made from
Breakdowns ==
  { <<"contactsByOperator", "contacts_by_operator">>,
    <<"pointsByOperator", "points_by_operator">>,
    <<"contactsByMode", "contacts_by_mode">>,
    <<"contactsByBand", "contacts_by_band">>,
    <<"contactsByContinent", "contacts_by_continent">>,
    <<"contactsByState", "contacts_by_state">>,
    <<"contactsByCountry", "contacts_by_country">> }

\* C16: in the snapshot a call returns, each breakdown list is non-increasing
\* by count and has exactly one entry, with the counter's value, per key of
\* its counter.
C16_BreakdownsSorted ==
  [][IsSnapshotStep =>
       \A b \in Breakdowns :
         LET rows == snap'.ret[b[1]]
             d == agg[b[2]]
         IN /\ \A i \in 1..(Len(rows) - 1) : rows[i].count >= rows[i + 1].count
            /\ Len(rows) = Cardinality(DOMAIN d)
            /\ {rows[i].key : i \in DOMAIN rows} = DOMAIN d
            /\ \A i \in DOMAIN rows : rows[i].count = d[rows[i].key]]_vars

\* a snapshot has been returned whose operator list starts with an operator
\* that was not the first to log, ahead of one with fewer contacts
C16_Witness ==
  /\ snap # EmptyDict
  /\ Len(snap.ret.contactsByOperator) >= 2
  /\ snap.ret.contactsByOperator[1].count > snap.ret.contactsByOperator[2].count
  /\ snap.ret.contactsByOperator[1].key # OperatorOf(callLog[1])

\* C19: in the snapshot a call returns, rate20min is 60 when at least 20
\* contacts have been logged in total and rate60min is 60 when at least 60
\* have; below its threshold, each is the total of contacts divided by the
\* number of distinct active hours (rounded), when there is an active hour.
C19_RatesByTotalContacts ==
  [][IsSnapshotStep =>
       LET rates == snap'.ret.rateStats
           hours == Cardinality(DOMAIN agg.qsos_by_hour)
       IN /\ agg.total_contacts >= 20 => rates.rate20min = 60
          /\ agg.total_contacts >= 60 => rates.rate60min = 60
          /\ (agg.total_contacts < 20 /\ hours >= 1)
               => rates.rate20min = Round(agg.total_contacts, hours)
          /\ (agg.total_contacts < 60 /\ hours >= 1)
               => rates.rate60min = Round(agg.total_contacts, hours)]_vars

\* a snapshot has been returned after 20 contacts, one of them undated
C19_Witness ==
  /\ snap # EmptyDict
  /\ snap.ret.totals.contacts = 20
  /\ agg.total_contacts = 20
  /\ Len(agg.all_qso_times) = 19

\* the members of a set of numbers, smallest first
RECURSIVE Ascending(_)
Ascending(S) ==
  IF S = {} THEN <<>>
  ELSE LET least == CHOOSE x \in S : \A y \in S : x <= y
       IN <<least>> \o Ascending(S \ {least})

\* where the tag pairs of a stretch of text are, the two pseudo-tags left out
DataPairs(seg) ==
  {i \in DOMAIN seg : seg[i].t = "pair" /\ UpperTag(seg[i].tag) \notin {"", "CMD", "LISTRESPONSE"}}

\* the record a stretch of text stands for: each tag in upper case with the
\* trimmed value of its last pair
RecordOf(seg) ==
  LET tags == {UpperTag(seg[i].tag) : i \in DataPairs(seg)}
      last(tag) == CHOOSE i \in DataPairs(seg) :
                     /\ UpperTag(seg[i].tag) = tag
                     /\ \A j \in DataPairs(seg) : UpperTag(seg[j].tag) = tag => j <= i
  IN [tag \in tags |-> Strip(seg[last(tag)].val)]

\* the text has a closing delimiter of the outer marker, in either spelling
IsFramingA(text) == \E i \in DOMAIN text : text[i].t \in {"close", "close_ws"}

\* the first position after o that holds a token of one of the kinds, or one
\* past the end of the text
NextOf(text, o, kinds) ==
  CHOOSE c \in (o + 1)..(Len(text) + 1) :
    /\ (c = Len(text) + 1 \/ text[c].t \in kinds)
    /\ \A k \in (o + 1)..(c - 1) : text[k].t \notin kinds

\* where the closed <LISTRESPONSE>...</LISTRESPONSE> blocks of a text start:
\* at a marker that has a closing delimiter after it and lies in no earlier
\* block, every marker before it having been closed before it
ClosedBlockStarts(text) ==
  {o \in DOMAIN text :
     /\ text[o].t = "open"
     /\ NextOf(text, o, {"close"}) <= Len(text)
     /\ \A k \in 1..(o - 1) : text[k].t = "open" => NextOf(text, k, {"close"}) < o}

\* the closed blocks of a text, in input order
ClosedBlocksOf(text) ==
  LET starts == Ascending(ClosedBlockStarts(text))
  IN [i \in DOMAIN starts |->
        SubSeq(text, starts[i] + 1, NextOf(text, starts[i], {"close"}) - 1)]

\* the segments of a text, in input order: from each occurrence of the outer
\* marker up to the next one or the end of the text
MarkerSegmentsOf(text) ==
  LET starts == Ascending({o \in DOMAIN text : text[o].t \in {"open", "open_ws"}})
  IN [i \in DOMAIN starts |->
        SubSeq(text, starts[i] + 1, NextOf(text, starts[i], {"open", "open_ws"}) - 1)]

\* the records of the stretches that hold at least one tag pair, in order
RecordsOf(segs) ==
  SelectSeq([i \in DOMAIN segs |-> RecordOf(segs[i])], LAMBDA rec : DOMAIN rec # {})

\* the two samples: a closed block, and two markers with no closing delimiter
SampleA == <<OpenTok, Pair("CALL", sW1AW), Pair("MODE", sCW), CloseTok>>
SampleB == <<OpenTok, Pair("CALL", sW1AW), OpenTok, Pair("CALL", sK1ABC)>>

C18_OneFramingPerResponse ==
  fut.kind = "raw" =>
    LET text == fut.text
        parsed == ParseCmdRecords(text)
        blocks == ClosedBlocksOf(text)
        segments == MarkerSegmentsOf(text)
    IN /\ recs \in {<<>>, parsed}
       /\ IsFramingA(text) =>
            /\ Len(parsed) <= Len(blocks)
            /\ \A i \in DOMAIN parsed : \E j \in DOMAIN blocks : parsed[i] = RecordOf(blocks[j])
       /\ ~IsFramingA(text) =>
            /\ Len(parsed) <= Len(segments)
            /\ \A i \in DOMAIN parsed : \E j \in DOMAIN segments : parsed[i] = RecordOf(segments[j])

\* a text of a closed block followed by an unclosed marker with a pair has
\* been parsed to the record of the block alone
C18_Witness ==
  /\ fut.kind = "raw"
  /\ fut.text = <<OpenTok, Pair("CALL", sW1AW), CloseTok, OpenTok, Pair("MODE", sCW)>>
  /\ recs = <<[CALL |-> sW1AW]>>

\* C20: the seed's fetch starts only when the task starts, once; a poll's
\* fetch starts only from the end of the seed (its merge done, or its failure
\* handled) or from the end of a wait; and the seed's diagnostics are written
\* only by the seed's fetch.
C20_OneSeedFirst ==
  [][/\ (pc' = "seed_fetch" /\ pc # "seed_fetch") => pc = "idle"
     /\ pc = "idle" => pc' \in {"idle", "seed_fetch"}
     /\ pc' = "idle" => pc = "idle"
     /\ (pc' = "poll_fetch" /\ pc # "poll_fetch") =>
          \/ pc = "seed_merge" /\ recs = <<>>
          \/ pc = "seed_fetch" /\ fut.kind = "exc"
          \/ pc = "wait"
     /\ diag'.seed # diag.seed => (pc = "seed_fetch" /\ diag.seed = EmptyDict)
     /\ ("seedError" \in DOMAIN diag' /\ "seedError" \notin DOMAIN diag) => pc = "seed_fetch"
     /\ "seedError" \in DOMAIN diag => diag'.seedError = diag.seedError]_vars

\* the seed has been fetched and merged, a poll after it too, and the task is
\* fetching again
C20_Witness ==
  /\ pc = "poll_fetch"
  /\ diag.seed # EmptyDict
  /\ diag.poll # EmptyDict
  /\ Len(callLog) >= 2

\* the record has neither primary-key field
Keyless(r) == "FLDPRIMARYKEY" \notin DOMAIN r /\ "PRIMARYKEY" \notin DOMAIN r

\* C21: every add_record call with a record that has no primary-key field
\* adds one to total_contacts and leaves the set of seen keys as it was, so k
\* calls with the same keyless record add k.
C21_KeylessAlwaysNew ==
  [][(IsAddStep /\ Keyless(AddedRecord))
      => /\ agg'.total_contacts = agg.total_contacts + 1
         /\ agg'.seen_keys = agg.seen_keys]_vars

\* the same keyless record has been merged three times, and nothing else
C21_Witness ==
  /\ Len(callLog) = 3
  /\ Keyless(callLog[1])
  /\ callLog[2] = callLog[1]
  /\ callLog[3] = callLog[1]
  /\ agg.total_contacts = 3
  /\ agg.seen_keys = {}

\* the first non-empty stripped value among the named fields of a record,
\* else the default
FirstField(r, names, default) ==
  LET given == {i \in DOMAIN names : Truthy(Get(r, names[i]))}
      first == CHOOSE i \in given : \A j \in given : i <= j
  IN IF given # {} /\ Strip(r[names[first]]) # <<>> THEN Strip(r[names[first]]) ELSE default

\* C22: after every add_record call that is not a duplicate, the registry
\* has the record's station (its STATION or FLDSTATION field, else "Op: " and
\* the operator), and the station's operator, band, mode and lastUpdate are
\* those of the record just merged: its operator (UNKNOWN without one), its
\* band (empty without one), its mode (UNK without one) and its date and time
\* joined by a space and trimmed, whatever the station held before.
C22_StationLastWriterWins ==
  [][IsMergeStep =>
      LET r == AddedRecord
          op == FirstField(r, <<"FLDOPERATOR", "OPERATOR">>, <<"U", "N", "K", "N", "O", "W", "N">>)
          station == FirstField(r, <<"STATION", "FLDSTATION">>, <<"O", "p", ":", " ">> \o op)
          qso_date == FirstField(r, <<"DATE", "QSODATE", "FLDQSODATE">>, <<>>)
          qso_time == FirstField(r, <<"TIMEON", "FLDTIMEON">>, <<>>)
      IN /\ station \in DOMAIN agg'.stations
         /\ agg'.stations[station].operator = op
         /\ agg'.stations[station].band = FirstField(r, <<"BAND">>, <<>>)
         /\ agg'.stations[station].mode = FirstField(r, <<"MODE">>, <<"U", "N", "K">>)
         /\ agg'.stations[station].lastUpdate = Strip(qso_date \o <<" ">> \o qso_time)]_vars

\* a station whose first contact was logged on 01/26 at 21:59 has then had a
\* contact of 1/5 at 7 merged with no mode merged, and shows the later merge
C22_Witness ==
  /\ Len(callLog) = 2
  /\ StationOf(callLog[1]) = StationOf(callLog[2])
  /\ FullTimeOf(callLog[1]) = <<"0", "1", "/", "2", "6", " ", "2", "1", ":", "5", "9">>
  /\ FullTimeOf(callLog[2]) = <<"1", "/", "5", " ", "7">>
  /\ agg.stations[StationOf(callLog[2])].lastUpdate = <<"1", "/", "5", " ", "7">>
  /\ agg.stations[StationOf(callLog[2])].mode = <<"U", "N", "K">>
  /\ Len(agg.stations[StationOf(callLog[2])].recent) = 2

\* C23: an n3fjp_cmd call always ends.  Its loop leaves on the idle test only
\* with a chunk received, so a call that has received nothing and leaves on a
\* timeout leaves on the total one; at the head of the loop it leaves when a
\* chunk has been received and idle_timeout has passed since the last one,
\* and when total_timeout has passed since the start, whatever has arrived;
\* and while it runs, the silence after a chunk and the time since the start
\* exceed their timeouts by no more than one read.
C23_ReadLoopDualTimeout ==
  /\ <>(cmd.at \in {"returned", "raised"})
  /\ [](cmd.at # "none" =>
         /\ cmd.left = "idle" => (cmd.chunks > 0 /\ cmd.now - cmd.last_data >= cmd.idle_timeout)
         /\ (cmd.at = "returned" /\ cmd.chunks = 0 /\ cmd.left # "closed")
              => (cmd.left = "total" /\ cmd.now - cmd.start >= cmd.total_timeout)
         /\ cmd.at = "recv" => cmd.time - cmd.start < cmd.total_timeout
         /\ (cmd.at = "recv" /\ cmd.chunks > 0) => cmd.time - cmd.last_data < cmd.idle_timeout
         /\ cmd.time - cmd.start <= cmd.total_timeout + cmd.idle_timeout)
  /\ [][cmd.at = "top" =>
          /\ (cmd.chunks > 0 /\ cmd.time - cmd.last_data >= cmd.idle_timeout)
               => cmd'.at = "returned"
          /\ cmd.time - cmd.start >= cmd.total_timeout => cmd'.at = "returned"]_vars

\* a call has waited through silence longer than idle_timeout before its
\* first chunk, has received chunks, and has left on the idle test
C23_Witness ==
  /\ cmd.at = "returned"
  /\ cmd.left = "idle"
  /\ cmd.chunks = 2
  /\ cmd.time - cmd.start > 2 * cmd.idle_timeout

\* the sum of the counts of a breakdown list
RECURSIVE SumRows(_)
SumRows(rows) == IF rows = <<>> THEN 0 ELSE Head(rows).count + SumRows(Tail(rows))

\* C24: get_snapshot computes its snapshot only while the task is outside
\* the block in which it merges a batch, so with every record of each batch
\* begun already merged and none of a batch still to come; the snapshot shows
\* the totals of that state, and its per-operator and per-mode contact
\* counts each sum to its total of contacts, its per-operator points to its
\* total of points.
C24_SnapshotSeesWholeBatches ==
  [][IsSnapshotStep =>
       /\ pc \notin MergePcs
       /\ lock = "free"
       /\ snap'.ret.totals.contacts = agg.total_contacts
       /\ snap'.ret.totals.points = agg.total_points
       /\ SumRows(snap'.ret.contactsByOperator) = snap'.ret.totals.contacts
       /\ SumRows(snap'.ret.contactsByMode) = snap'.ret.totals.contacts
       /\ SumRows(snap'.ret.pointsByOperator) = snap'.ret.totals.points]_vars

\* get_snapshot holds a snapshot of two contacts while the task, a batch
\* fetched and parsed, waits for the lock to merge it
C24_Witness ==
  /\ snap # EmptyDict
  /\ snap.ret.totals.contacts = 2
  /\ pc = "poll_lock"
  /\ recs # <<>>
  /\ lock = "reader"

\* C25: in every state the counts of qsos_by_hour sum to the length of
\* all_qso_times, which is at most total_contacts; and for every band of
\* qsos_by_band_hour the counts of its hours sum to at most the band's
\* contact counter, and its count for each hour is at most the overall count
\* for that hour.
C25_TimeStatisticsConsistent ==
  /\ SumOf(agg.qsos_by_hour) = Len(agg.all_qso_times)
  /\ Len(agg.all_qso_times) <= agg.total_contacts
  /\ \A band \in DOMAIN agg.qsos_by_band_hour :
       /\ band \in DOMAIN agg.contacts_by_band
       /\ SumOf(agg.qsos_by_band_hour[band]) <= agg.contacts_by_band[band]
       /\ \A hour_key \in DOMAIN agg.qsos_by_band_hour[band] :
            /\ hour_key \in DOMAIN agg.qsos_by_hour
            /\ agg.qsos_by_band_hour[band][hour_key] <= agg.qsos_by_hour[hour_key]

\* contacts of one band have been merged in two hours, more than once in one
\* of them, with a contact of another band whose timestamp cannot be read
C25_Witness ==
  /\ \E band \in DOMAIN agg.qsos_by_band_hour :
       /\ Cardinality(DOMAIN agg.qsos_by_band_hour[band]) = 2
       /\ \E hour_key \in DOMAIN agg.qsos_by_band_hour[band] :
            agg.qsos_by_band_hour[band][hour_key] >= 2
  /\ Cardinality(DOMAIN agg.contacts_by_band) = 2
  /\ Cardinality(DOMAIN agg.qsos_by_band_hour) = 1
  /\ Len(agg.all_qso_times) < agg.total_contacts

====
